---- MODULE Spec2Model ----
(***************************************************************************)
(* packages/messaging-compat/src/messaging-compat.ts                       *)
(*                                                                         *)
(* Two parts:                                                              *)
(*   - the capability probes isSupported / isWindowSupported /             *)
(*     isSwSupported, evaluated against a host environment (ProbeSpec);    *)
(*   - the adapter MessagingCompatImpl, whose five methods forward to the  *)
(*     modular messaging library (Spec, AsyncSpec).                        *)
(***************************************************************************)
EXTENDS Naturals, Sequences

VARIABLES
    env,          \* the host environment the probes run in
    probe,        \* the last probe call: which function, its result
    adapter,      \* the MessagingCompatImpl instance: app, _delegate
    ctor,         \* the arguments the instance was constructed with
    calls,        \* the adapter method calls made so far, with what each
                  \* returned to its caller
    delegateLog,  \* the calls the messaging library received, with what
                  \* each returned to the adapter
    subs          \* the library's registry of message handlers

vars == <<env, probe, adapter, ctor, calls, delegateLog, subs>>

adapterVars == <<adapter, ctor, calls, delegateLog, subs>>

(***************************************************************************)
(* Host environment.  One boolean per thing the probes look at.  A global  *)
(* identifier that is not declared raises a ReferenceError when it is      *)
(* read; `typeof x` and the two @firebase/util helpers never raise.        *)
(*   hasSelf / hasWindow : the identifiers `self` / `window` are declared  *)
(*                         (both name the one global object)               *)
(*   ServiceWorkerGlobalScope, PushManager, Notification, fetch :          *)
(*                         properties of the global object                 *)
(*   indexedDB           : typeof indexedDB === 'object'                   *)
(*   hasNavigator, cookieEnabled, serviceWorker : navigator and two of its *)
(*                         properties                                      *)
(*   hasSWR, showNotification : ServiceWorkerRegistration is declared, and *)
(*                         its prototype owns showNotification             *)
(*   hasPS, getKey       : the same for PushSubscription / getKey          *)
(***************************************************************************)
EnvFields ==
    {"hasSelf", "hasWindow", "ServiceWorkerGlobalScope", "PushManager",
     "Notification", "fetch", "indexedDB", "hasNavigator", "cookieEnabled",
     "serviceWorker", "hasSWR", "showNotification", "hasPS", "getKey"}

\* A property needs its object: nothing else is assumed of the host.
EnvConsistent(e) ==
    /\ e.cookieEnabled => e.hasNavigator
    /\ e.serviceWorker => e.hasNavigator
    /\ e.showNotification => e.hasSWR
    /\ e.getKey => e.hasPS

Envs == {e \in [EnvFields -> BOOLEAN] : EnvConsistent(e)}

\* The environment of a current browser page.
BrowserWindowEnv ==
    [f \in EnvFields |-> f # "ServiceWorkerGlobalScope"]

(***************************************************************************)
(* Evaluation of JavaScript boolean expressions: "true", "false", or       *)
(* "raise" (an exception leaves the expression).                           *)
(***************************************************************************)
Bool(b) == IF b THEN "true" ELSE "false"

\* `prop in obj`, where obj is an identifier that may be undeclared.
In(declared, has) == IF declared THEN Bool(has) ELSE "raise"

\* a && b && ... : the first operand that is not true decides; operands
\* after it are not evaluated.
RECURSIVE AndChain(_)
AndChain(checks) ==
    IF checks = <<>> THEN "true"
    ELSE IF Head(checks) # "true" THEN Head(checks)
    ELSE AndChain(Tail(checks))

\* @firebase/util: typeof indexedDB === 'object', inside try/catch.
isIndexedDBAvailable(e) == Bool(e.indexedDB)

\* @firebase/util: false when navigator is undefined or cookies are off.
areCookiesEnabled(e) == Bool(e.hasNavigator /\ e.cookieEnabled)

\* X.prototype.hasOwnProperty(name), X possibly undeclared.
ProtoHasOwn(declared, has) == In(declared, has)

isWindowSupported(e) ==
    AndChain(<< Bool(e.hasWindow),
                isIndexedDBAvailable(e),
                areCookiesEnabled(e),
                In(e.hasNavigator, e.serviceWorker),
                In(e.hasWindow, e.PushManager),
                In(e.hasWindow, e.Notification),
                In(e.hasWindow, e.fetch),
                ProtoHasOwn(e.hasSWR, e.showNotification),
                ProtoHasOwn(e.hasPS, e.getKey) >>)

isSwSupported(e) ==
    AndChain(<< isIndexedDBAvailable(e),
                In(e.hasSelf, e.PushManager),
                In(e.hasSelf, e.Notification),
                ProtoHasOwn(e.hasSWR, e.showNotification),
                ProtoHasOwn(e.hasPS, e.getKey) >>)

\* The condition of the if: self && 'ServiceWorkerGlobalScope' in self.
\* `self`, when declared, is the global object, which is truthy.
InSwScope(e) ==
    AndChain(<< In(e.hasSelf, TRUE),
                In(e.hasSelf, e.ServiceWorkerGlobalScope) >>)

\* The result of isSupported() and the probes it evaluated on the way.
isSupported(e) ==
    LET c == InSwScope(e) IN
    IF c = "raise" THEN [result |-> "raise", evaluated |-> {}]
    ELSE IF c = "true"
         THEN [result |-> isSwSupported(e), evaluated |-> {"isSwSupported"}]
         ELSE [result |-> isWindowSupported(e),
               evaluated |-> {"isWindowSupported"}]

NoProbe == [fn |-> "none", result |-> "none", evaluated |-> {}]

ProbeInit ==
    /\ env \in Envs
    /\ probe = NoProbe

CallIsSupported ==
    /\ probe' = [fn |-> "isSupported",
                 result |-> isSupported(env).result,
                 evaluated |-> isSupported(env).evaluated]
    /\ UNCHANGED env

\* The two probes are private to the module: each runs only where
\* isSupported() takes its branch.
CallIsWindowSupported ==
    /\ InSwScope(env) = "false"
    /\ probe' = [fn |-> "isWindowSupported",
                 result |-> isWindowSupported(env),
                 evaluated |-> {"isWindowSupported"}]
    /\ UNCHANGED env

CallIsSwSupported ==
    /\ InSwScope(env) = "true"
    /\ probe' = [fn |-> "isSwSupported",
                 result |-> isSwSupported(env),
                 evaluated |-> {"isSwSupported"}]
    /\ UNCHANGED env

(***************************************************************************)
(* Values that cross the adapter.  A value is a record of a kind, a text   *)
(* and, for a function the library returns, the number of the library call *)
(* that made it.                                                           *)
(***************************************************************************)
MaxCalls == 2     \* adapter method calls in one behaviour
MaxUnsub == 2     \* invocations of one returned unsubscribe function
MaxMsgs == 1      \* messages dispatched to one handler

Apps == {"app1", "app2"}
Delegates == {"messaging1", "messaging2"}

\* The (app, messaging) pairs an adapter is constructed with: each app has
\* its own messaging instance.
Constructions ==
    {[app |-> "app1", delegate |-> "messaging1"],
     [app |-> "app2", delegate |-> "messaging2"]}

Val(k, s) == [kind |-> k, v |-> s, id |-> 0]
Undefined == Val("undefined", "undefined")
Options == {Undefined, Val("options", "vapidKey=key1")}
Handlers == {Val("nextFn", "h1"), Val("observer", "o1")}
Booleans == {Val("boolean", "true"), Val("boolean", "false")}
Tokens == {Val("string", "tok123"), Val("string", "tok456")}
Errors == {Val("error", "permission-blocked"), Val("error", "network")}
UnsubscribeFn(j) == [kind |-> "function", v |-> "unsubscribe", id |-> j]

\* What a call hands back: it threw, it returned a value, or it returned a
\* pending computation that later is resolved or rejected.
Outcome(k, x) == [kind |-> k, val |-> x]

(***************************************************************************)
(* The adapter.                                                            *)
(***************************************************************************)
\* Faulty variant: the constructor stores another messaging instance.
MessagingCompatImplOther(app, _delegate) ==
    [app |-> app, _delegate |-> CHOOSE d \in Delegates : d # _delegate]

MessagingCompatImpl(app, _delegate) == [app |-> app, _delegate |-> _delegate]

Request(fn, delegate, arg) == [fn |-> fn, delegate |-> delegate, arg |-> arg]

\* Faulty variant: getToken drops its options.
getTokenNoOptions(this, options) ==
    << [fn |-> "getToken", delegate |-> this._delegate, arg |-> Undefined] >>

\* The library calls each method body makes, in order.
getToken(this, options) == << Request("getToken", this._delegate, options) >>

deleteToken(this) == << Request("deleteToken", this._delegate, Undefined) >>

onMessage(this, nextOrObserver) ==
    << Request("onMessage", this._delegate, nextOrObserver) >>

\* Faulty variant: onBackgroundMessage registers through the foreground entry.
onBackgroundMessageForeground(this, nextOrObserver) ==
    << [fn |-> "onMessage", delegate |-> this._delegate,
        arg |-> nextOrObserver] >>

onBackgroundMessage(this, nextOrObserver) ==
    << Request("onBackgroundMessage", this._delegate, nextOrObserver) >>

setSkipForegroundNotifications(this, skip) ==
    << Request("setSkipForegroundNotifications", this._delegate, skip) >>

\* Faulty variant: the method is not async, an exception of f leaves it.
AsyncReturnNotAsync(out) ==
    IF out.kind = "threw" THEN out ELSE Outcome("pending", Undefined)

\* `async m() { return f(...) }`: an exception of f rejects the returned
\* computation; a computation returned by f is adopted, so the returned one
\* stays pending until f's settles.
AsyncReturn(out) ==
    IF out.kind = "threw" THEN Outcome("rejected", out.val)
    ELSE Outcome("pending", Undefined)

\* The returned computation takes the state of the one it adopted.
Adopt(out) == out

\* Faulty variant: the `return` is missing.
SyncReturnMissing(out) ==
    IF out.kind = "threw" THEN out ELSE Outcome("returned", Undefined)

\* `m() { return f(...) }`
SyncReturn(out) == out

\* `m() { f(...) }`: nothing is returned; an exception of f passes.
VoidReturn(out) ==
    IF out.kind = "threw" THEN out ELSE Outcome("returned", Undefined)

\* The library call whose result adapter call i hands on: its last one.
Src(i) == calls[i].first + calls[i].n - 1

\* Faulty variant: the adapter queues its calls, each settles after the ones
\* before it.
SettlesInOrder(i) ==
    /\ calls[i].a.kind = "pending"
    /\ delegateLog[Src(i)].out.kind \in {"resolved", "rejected"}
    /\ \A k \in 1..(i - 1) : calls[k].a.kind # "pending"

\* The computation adapter call i returned can settle: the one it adopted
\* has settled.
Settles(i) ==
    /\ calls[i].a.kind = "pending"
    /\ delegateLog[Src(i)].out.kind \in {"resolved", "rejected"}

(***************************************************************************)
(* The messaging library (@firebase/messaging), as far as the adapter      *)
(* sees it.                                                                *)
(***************************************************************************)
Ok == Val("ok", "ok")
Choices == {Ok} \cup Errors

\* What library call number j hands back at once: it throws the chosen
\* error, or returns what its signature says.
DelegateRespond(req, j, choice) ==
    IF choice \in Errors THEN Outcome("threw", choice)
    ELSE IF req.fn \in {"getToken", "deleteToken"}
         THEN Outcome("pending", Undefined)
    ELSE IF req.fn \in {"onMessage", "onBackgroundMessage"}
         THEN Outcome("returned", UnsubscribeFn(j))
    ELSE Outcome("returned", Undefined)

Entries(reqs, choice) ==
    [k \in 1..Len(reqs) |->
        [fn |-> reqs[k].fn, delegate |-> reqs[k].delegate,
         arg |-> reqs[k].arg,
         out |-> DelegateRespond(reqs[k], Len(delegateLog) + k, choice),
         removed |-> 0, delivered |-> 0]]

\* The handlers the calls register.
NewSubs(reqs, choice) ==
    {[id |-> Len(delegateLog) + k, delegate |-> reqs[k].delegate,
      channel |-> reqs[k].fn, handler |-> reqs[k].arg] :
        k \in {x \in 1..Len(reqs) :
                  /\ reqs[x].fn \in {"onMessage", "onBackgroundMessage"}
                  /\ choice = Ok}}

LastOut(reqs, choice) ==
    DelegateRespond(reqs[Len(reqs)], Len(delegateLog) + Len(reqs), choice)

\* What a settled library computation of `fn` can hold.
Settlements(fn) ==
    {Outcome("rejected", e) : e \in Errors} \cup
    {Outcome("resolved", x) :
        x \in IF fn = "getToken" THEN Tokens
              ELSE IF fn = "deleteToken" THEN Booleans
              ELSE {Undefined}}

(***************************************************************************)
(* Actions of the adapter specification.                                   *)
(***************************************************************************)
Init ==
    /\ env = BrowserWindowEnv
    /\ probe = NoProbe
    /\ ctor \in Constructions
    /\ adapter = MessagingCompatImpl(ctor.app, ctor.delegate)
    /\ calls = <<>>
    /\ delegateLog = <<>>
    /\ subs = {}

\* One adapter method call: the method body's library calls happen, and the
\* caller gets `a`.
Issue(method, arg, reqs, choice, a) ==
    /\ Len(calls) < MaxCalls
    /\ delegateLog' = delegateLog \o Entries(reqs, choice)
    /\ subs' = subs \cup NewSubs(reqs, choice)
    /\ calls' = Append(calls,
                       [method |-> method, arg |-> arg,
                        first |-> Len(delegateLog) + 1, n |-> Len(reqs),
                        a |-> a, invoked |-> 0, raised |-> FALSE])
    /\ UNCHANGED <<adapter, ctor, env, probe>>

GetToken ==
    \E options \in Options, choice \in Choices :
        LET reqs == getToken(adapter, options) IN
        Issue("getToken", options, reqs, choice,
              AsyncReturn(LastOut(reqs, choice)))

DeleteToken ==
    \E choice \in Choices :
        LET reqs == deleteToken(adapter) IN
        Issue("deleteToken", Undefined, reqs, choice,
              AsyncReturn(LastOut(reqs, choice)))

OnMessage ==
    \E h \in Handlers, choice \in Choices :
        LET reqs == onMessage(adapter, h) IN
        Issue("onMessage", h, reqs, choice,
              SyncReturn(LastOut(reqs, choice)))

OnBackgroundMessage ==
    \E h \in Handlers, choice \in Choices :
        LET reqs == onBackgroundMessage(adapter, h) IN
        Issue("onBackgroundMessage", h, reqs, choice,
              SyncReturn(LastOut(reqs, choice)))

SetSkipForegroundNotifications ==
    \E skip \in Booleans, choice \in Choices :
        LET reqs == setSkipForegroundNotifications(adapter, skip) IN
        Issue("setSkipForegroundNotifications", skip, reqs, choice,
              VoidReturn(LastOut(reqs, choice)))

\* The library settles a computation it returned.
DelegateSettle ==
    \E j \in DOMAIN delegateLog :
        /\ delegateLog[j].out.kind = "pending"
        /\ \E s \in Settlements(delegateLog[j].fn) :
              delegateLog' = [delegateLog EXCEPT ![j].out = s]
        /\ UNCHANGED <<adapter, ctor, calls, subs, env, probe>>

\* The computation an async adapter method returned settles.
AdapterSettle(i) ==
    /\ i \in DOMAIN calls
    /\ Settles(i)
    /\ calls' = [calls EXCEPT ![i].a = Adopt(delegateLog[Src(i)].out)]
    /\ UNCHANGED <<adapter, ctor, delegateLog, subs, env, probe>>

\* The caller invokes what onMessage / onBackgroundMessage returned to it.
\* Invoking the library's unsubscribe function runs the library's removal
\* of that handler; invoking something that is no function raises.
Unsubscribe ==
    \E i \in DOMAIN calls :
        LET f == calls[i].a.val IN
        /\ calls[i].method \in {"onMessage", "onBackgroundMessage"}
        /\ calls[i].a.kind = "returned"
        /\ calls[i].invoked < MaxUnsub
        /\ calls' = [calls EXCEPT ![i].invoked = @ + 1,
                                  ![i].raised = @ \/ f.kind # "function"]
        /\ IF f.kind = "function" /\ f.v = "unsubscribe"
              THEN /\ delegateLog' =
                        [delegateLog EXCEPT ![f.id].removed = @ + 1]
                   /\ subs' = {s \in subs : s.id # f.id}
              ELSE UNCHANGED <<delegateLog, subs>>
        /\ UNCHANGED <<adapter, ctor, env, probe>>

\* The library's dispatch loop hands a message to every handler registered
\* with one messaging instance on one channel.
Receivers(d, ch) == {s \in subs : s.delegate = d /\ s.channel = ch}

Dispatch ==
    \E d \in Delegates, ch \in {"onMessage", "onBackgroundMessage"} :
        /\ Receivers(d, ch) # {}
        /\ \A s \in Receivers(d, ch) : delegateLog[s.id].delivered < MaxMsgs
        /\ delegateLog' =
              [j \in DOMAIN delegateLog |->
                  IF \E s \in Receivers(d, ch) : s.id = j
                  THEN [delegateLog[j] EXCEPT !.delivered = @ + 1]
                  ELSE delegateLog[j]]
        /\ UNCHANGED <<adapter, ctor, calls, subs, env, probe>>

Next ==
    \/ GetToken
    \/ DeleteToken
    \/ OnMessage
    \/ OnBackgroundMessage
    \/ SetSkipForegroundNotifications
    \/ DelegateSettle
    \/ \E i \in 1..MaxCalls : AdapterSettle(i)
    \/ Unsubscribe
    \/ Dispatch

Spec == Init /\ [][Next]_vars

(***************************************************************************)
(* The probe specification: any environment, any probe called.             *)
(***************************************************************************)
ProbeSpecInit ==
    /\ ProbeInit
    /\ ctor = [app |-> "app1", delegate |-> "messaging1"]
    /\ adapter = MessagingCompatImpl("app1", "messaging1")
    /\ calls = <<>>
    /\ delegateLog = <<>>
    /\ subs = {}

ProbeNext ==
    \/ CallIsSupported /\ UNCHANGED adapterVars
    \/ CallIsWindowSupported /\ UNCHANGED adapterVars
    \/ CallIsSwSupported /\ UNCHANGED adapterVars

ProbeSpec == ProbeSpecInit /\ [][ProbeNext]_vars

\* The two async methods alone: the specification of overlapping token
\* calls.  The host runs every queued continuation, so a settled library
\* computation is always followed by the settling of the one that adopted
\* it: weak fairness of AdapterSettle.
AsyncNext ==
    \/ GetToken
    \/ DeleteToken
    \/ DelegateSettle
    \/ \E i \in 1..MaxCalls : AdapterSettle(i)

AsyncSpec ==
    Init /\ [][AsyncNext]_vars /\ \A i \in 1..MaxCalls : WF_vars(AdapterSettle(i))

(***************************************************************************)
(* Properties of the probes.                                               *)
(***************************************************************************)
WindowCapabilities(e) ==
    /\ e.hasWindow /\ e.indexedDB /\ e.cookieEnabled /\ e.serviceWorker
    /\ e.PushManager /\ e.Notification /\ e.fetch
    /\ e.showNotification /\ e.getKey

SwCapabilities(e) ==
    /\ e.indexedDB /\ e.PushManager /\ e.Notification
    /\ e.showNotification /\ e.getKey

\* Every global a probe reads without a typeof guard is declared.
GlobalsDeclared(e) == e.hasSelf /\ e.hasSWR /\ e.hasPS

\* C2: the window probe returns true if and only if all nine window
\* capabilities are present, and false whenever one of them is absent.
C2_WindowProbeIsConjunction ==
    probe.fn = "isWindowSupported" =>
        probe.result = Bool(WindowCapabilities(env))

\* C3: the service-worker probe returns true when IndexedDB, PushManager,
\* Notification and the two prototype methods are all present and false
\* when any is absent, whatever cookies, fetch and navigator.serviceWorker
\* are.
C3_SwProbeIsConjunction ==
    probe.fn = "isSwSupported" =>
        probe.result = Bool(SwCapabilities(env))

\* C4: isSupported() evaluates exactly the service-worker probe in a
\* service-worker global scope and exactly the window probe in any other
\* scope, and its result is that probe's result.
C4_DispatchesToOneProbe ==
    probe.fn = "isSupported" =>
        IF env.hasSelf /\ env.ServiceWorkerGlobalScope
        THEN /\ probe.evaluated = {"isSwSupported"}
             /\ probe.result = isSwSupported(env)
        ELSE /\ probe.evaluated = {"isWindowSupported"}
             /\ probe.result = isWindowSupported(env)

\* C5: isSupported() and the two probes never raise: in every environment
\* the result is the boolean true or false.
C5_ProbesNeverRaise ==
    probe.fn # "none" => probe.result \in {"true", "false"}

\* What does hold of the probes: where self, ServiceWorkerRegistration and
\* PushSubscription are declared, each probe is the conjunction of its
\* capabilities, isSupported() picks one probe, and nothing raises.
ProbesWhereGlobalsDeclared ==
    GlobalsDeclared(env) =>
        /\ probe.fn # "none" => probe.result \in {"true", "false"}
        /\ probe.fn = "isWindowSupported" =>
              probe.result = Bool(WindowCapabilities(env))
        /\ probe.fn = "isSwSupported" =>
              probe.result = Bool(SwCapabilities(env))
        /\ probe.fn = "isSupported" =>
              /\ probe.evaluated =
                    IF env.ServiceWorkerGlobalScope
                    THEN {"isSwSupported"} ELSE {"isWindowSupported"}
              /\ probe.result =
                    IF env.ServiceWorkerGlobalScope
                    THEN Bool(SwCapabilities(env))
                    ELSE Bool(WindowCapabilities(env))

(***************************************************************************)
(* Properties of the adapter.                                              *)
(***************************************************************************)
AsyncMethods == {"getToken", "deleteToken"}
HandlerMethods == {"onMessage", "onBackgroundMessage"}
SyncMethods == HandlerMethods \cup {"setSkipForegroundNotifications"}
Settled == {"resolved", "rejected"}

\* C1: every adapter call hands the stored delegate and the caller's
\* argument to the library function of the same name, and gives its caller
\* what that function gave: the value the library's computation resolved
\* to, the unsubscribe function the library returned, or nothing.
C1_ForwardsAndReturns ==
    \A i \in DOMAIN calls :
        LET c == calls[i]
            d == delegateLog[Src(i)]
        IN  /\ d.fn = c.method
            /\ d.delegate = ctor.delegate
            /\ d.arg = c.arg
            /\ c.method \in AsyncMethods =>
                  /\ c.a.kind = "resolved" => c.a = d.out
                  /\ d.out.kind = "resolved" => c.a.kind \in {"pending", "resolved"}
            /\ c.method \in SyncMethods /\ d.out.kind = "returned" =>
                  c.a = d.out

C1_Witness ==
    \E i \in DOMAIN calls :
        /\ calls[i].method = "getToken"
        /\ calls[i].arg = Val("options", "vapidKey=key1")
        /\ delegateLog[Src(i)].out = Outcome("resolved", Val("string", "tok123"))
        /\ calls[i].a = Outcome("resolved", Val("string", "tok123"))

\* C6: an error of the library reaches the caller as the same value: the
\* async methods never throw but return a computation rejected with the
\* error the library threw or rejected with; the sync methods throw the
\* error the library threw.  No error is swallowed, wrapped or replaced.
C6_ErrorsPassUnchanged ==
    \A i \in DOMAIN calls :
        LET c == calls[i]
            d == delegateLog[Src(i)]
        IN  /\ c.method \in AsyncMethods =>
                  /\ c.a.kind # "threw"
                  /\ d.out.kind = "threw" => c.a = Outcome("rejected", d.out.val)
                  /\ d.out.kind = "rejected" =>
                        c.a.kind = "pending" \/ c.a = d.out
                  /\ c.a.kind = "rejected" =>
                        /\ d.out.kind \in {"threw", "rejected"}
                        /\ d.out.val = c.a.val
            /\ c.method \in SyncMethods =>
                  /\ d.out.kind = "threw" => c.a = d.out
                  /\ c.a.kind = "threw" => c.a = d.out

C6_Witness ==
    \E i, k \in DOMAIN calls :
        /\ calls[i].method \in AsyncMethods
        /\ delegateLog[Src(i)].out.kind = "threw"
        /\ calls[i].a = Outcome("rejected", Val("error", "network"))
        /\ calls[k].method \in SyncMethods
        /\ calls[k].a = Outcome("threw", Val("error", "permission-blocked"))

\* C7: each invocation of the function onMessage returned runs the
\* library's removal of that handler exactly once and does not raise, also
\* the second time; once it has run, the handler is out of the registry and
\* no dispatch delivers to it again.
C7_UnsubscribeState ==
    \A i \in DOMAIN calls :
        calls[i].method = "onMessage" /\ calls[i].a.kind = "returned" =>
            /\ delegateLog[Src(i)].removed = calls[i].invoked
            /\ ~calls[i].raised
            /\ calls[i].invoked > 0 => \A s \in subs : s.id # Src(i)

C7_NoDeliveryAfterRemoval ==
    \A i \in DOMAIN calls :
        calls[i].method = "onMessage" /\ calls[i].invoked > 0 =>
            delegateLog'[Src(i)].delivered = delegateLog[Src(i)].delivered

C7_Unsubscribe == [](C7_UnsubscribeState) /\ [][C7_NoDeliveryAfterRemoval]_vars

C7_Witness ==
    \E i \in DOMAIN calls :
        /\ calls[i].method = "onMessage"
        /\ calls[i].invoked = 2
        /\ delegateLog[Src(i)].removed = 2
        /\ delegateLog[Src(i)].delivered = 1

\* C8: with getToken and deleteToken calls overlapping, the library calls
\* are made in the order of the adapter calls; a returned computation is
\* settled only after the library's own is, with that one's outcome and
\* whatever the other calls do; and once the library's is settled, the
\* returned one gets settled.
C8_SettledOnlyAfter ==
    /\ \A i \in DOMAIN calls :
          LET c == calls[i]
              d == delegateLog[Src(i)]
          IN  /\ d.fn = c.method
              /\ c.a.kind \in Settled =>
                    \/ c.a = d.out
                    \/ d.out.kind = "threw" /\ c.a = Outcome("rejected", d.out.val)
    /\ \A i, k \in DOMAIN calls : i < k => Src(i) < Src(k)

C8_DelegateSettled(i) ==
    i \in DOMAIN calls /\ delegateLog[Src(i)].out.kind \in Settled

C8_AdapterSettled(i) ==
    i \in DOMAIN calls /\ calls[i].a = delegateLog[Src(i)].out

C8_NoOrderingOfItsOwn ==
    /\ [](C8_SettledOnlyAfter)
    /\ \A i \in 1..MaxCalls : (C8_DelegateSettled(i) ~> C8_AdapterSettled(i))

\* The second call is complete while the first is still pending.
C8_Witness ==
    /\ Len(calls) = 2
    /\ calls[1].method = "getToken" /\ calls[2].method = "deleteToken"
    /\ calls[1].a.kind = "pending"
    /\ delegateLog[Src(1)].out.kind = "pending"
    /\ calls[2].a = Outcome("resolved", Val("boolean", "true"))

\* C9: each adapter call makes exactly one library call, to the function
\* of its own name, and the library receives no other call; a handler given
\* to onBackgroundMessage is registered on the background channel only, one
\* given to onMessage on the foreground channel only.
C9_OneCallToOwnFunction ==
    /\ Len(delegateLog) = Len(calls)
    /\ \A i \in DOMAIN calls :
          /\ calls[i].n = 1
          /\ calls[i].first = i
          /\ delegateLog[i].fn = calls[i].method
    /\ \A s \in subs : s.channel = calls[s.id].method

C9_Witness ==
    /\ Len(calls) = 2
    /\ calls[1].method = "onBackgroundMessage"
    /\ calls[2].method = "onMessage"
    /\ \E s \in subs : s.id = 1 /\ s.channel = "onBackgroundMessage"
    /\ \E s \in subs : s.id = 2 /\ s.channel = "onMessage"

\* C10: whatever calls were made, failed ones included, the adapter holds
\* the app and the delegate it was constructed with and nothing else, and
\* every library call it made carried that delegate.
C10_ReferencesFixed ==
    /\ DOMAIN adapter = {"app", "_delegate"}
    /\ adapter.app = ctor.app
    /\ adapter._delegate = ctor.delegate
    /\ \A j \in DOMAIN delegateLog : delegateLog[j].delegate = ctor.delegate

C10_Witness ==
    /\ Len(calls) = 2
    /\ calls[1].a.kind = "rejected"
    /\ calls[2].a.kind = "threw"
    /\ adapter._delegate = "messaging2"
    /\ delegateLog[2].delegate = "messaging2"

====
